---- MODULE Spec2Model ----
(***************************************************************************)
(* Bad Review Translator: the programmatic SEO page generators             *)
(* (frontend/programmatic/generate-seo, the ES-module script with the      *)
(* five enumeration passes and the older TypeScript script driven by       *)
(* config.combinations) and the App component's translate handler.         *)
(*                                                                         *)
(* Text is modelled as sequences of one-character strings, so that slugs   *)
(* are really concatenated and can really collide.  A URL                  *)
(* `${TOOL_URL}/p/${slug}/` is modelled by its slug (the map is one to     *)
(* one), a page file by the fields generateHTML interpolates.              *)
(***************************************************************************)
EXTENDS Integers, Sequences, FiniteSets, TLC

VARIABLES
  script,        \* which generator the process runs: "mjs" or "ts"
  config,        \* dimensions.json as parsed (either script)
  prior,         \* what ../public held when the process started
  pc,            \* position of the script
  err,           \* the exception that ended the process, "none" if none
  pass,          \* generatePages: the pass being run; ts: index into config.combinations
  k,             \* number of combinations of the current pass already visited
  pages,         \* the page list
  seen,          \* generatePages' Set of slugs
  c,             \* the main loop's counter of pages written
  outDirExists,  \* ../public/p exists
  pageDirs,      \* the directories under ../public/p
  pageFiles,     \* slug -> content of ../public/p/<slug>/index.html
  smProg,        \* ../public/sitemap-programmatic.xml
  smMain,        \* ../public/sitemap-main.xml
  smIndex,       \* ../public/sitemap.xml
  app            \* the App component's state

diskVars == <<outDirExists, pageDirs, pageFiles, smProg, smMain, smIndex>>
vars == <<script, config, prior, pc, err, pass, k, pages, seen, c,
          outDirExists, pageDirs, pageFiles, smProg, smMain, smIndex, app>>

----------------------------------------------------------------------------
(* Bounds of the model *)

\* Most values a dimension of an enumerated catalog holds.
MaxVals == 2

\* Most entries of config.combinations (TypeScript generator).
MaxCombinations == 2

\* Most translate requests one App session starts.
MaxRequests == 2

\* Most generations the stored token starts with.
MaxCredits == 1

\* The sitemap protocol's per-file entry limit (50,000), scaled to the
\* catalogs enumerated here.
MaxShardEntries == 3

----------------------------------------------------------------------------
(* Text *)

Hy == "-"

LowerAlnum == {"a", "b", "c", "x", "y", "z", "0", "1"}

RECURSIVE JoinHy(_)
\* `${x.id}-${y.id}-...`: the texts joined by a hyphen.
JoinHy(ts) ==
  IF Len(ts) = 0 THEN <<>>
  ELSE IF Len(ts) = 1 THEN ts[1]
  ELSE ts[1] \o <<Hy>> \o JoinHy(Tail(ts))

\* ^[a-z0-9]+(-[a-z0-9]+)*$
WellFormedSlug(s) ==
  /\ Len(s) > 0
  /\ \A i \in 1..Len(s) : s[i] \in LowerAlnum \cup {Hy}
  /\ s[1] # Hy
  /\ s[Len(s)] # Hy
  /\ \A i \in 1..(Len(s) - 1) : ~(s[i] = Hy /\ s[i + 1] = Hy)

----------------------------------------------------------------------------
(* The dimension catalog of the ES-module generator: config.dimensions is   *)
(* an object keyed by dimension name, each with a `values` list of          *)
(* {id, en}.                                                                *)

DimNames == <<"business_type", "platform", "complaint_type", "tone">>
Dims == {DimNames[i] : i \in 1..Len(DimNames)}

\* The value identifiers catalogs are built from.  All are lower-case
\* alphanumerics and hyphens, as the catalog is documented to hold.
IdPool == << <<"a">>, <<"a", "-", "a">>, <<"b">> >>

EnOf ==
  [business_type  |-> <<"Restaurant", "Hotel", "Salon">>,
   platform       |-> <<"Yelp", "Google", "Amazon">>,
   complaint_type |-> <<"Slow Service", "Rude Staff", "Overpriced">>,
   tone           |-> <<"Polite", "Firm", "Witty">>]

Value(dim, i) == [id |-> IdPool[i], en |-> EnOf[dim][i]]

\* What destructuring yields for a key the page does not have.
Undefined == [id |-> <<"?">>, en |-> "undefined"]

RECURSIVE SortedSeq(_)
SortedSeq(S) ==
  IF S = {} THEN <<>>
  ELSE LET m == CHOOSE x \in S : \A y \in S : x <= y
       IN <<m>> \o SortedSeq(S \ {m})

\* The value lists a dimension may hold: at most MaxVals pool entries, in
\* pool order.
ValueLists(dim) ==
  { [i \in 1..Len(SortedSeq(S)) |-> Value(dim, SortedSeq(S)[i])] :
      S \in {T \in SUBSET (1..Len(IdPool)) : Cardinality(T) <= MaxVals} }

\* A dimension entry: present with a values list, or absent from the file.
DimEntries(dim) ==
  {[defined |-> TRUE, values |-> vs] : vs \in ValueLists(dim)}
    \cup {[defined |-> FALSE, values |-> <<>>]}

\* dimensions.json for the ES-module generator; parseOk = FALSE is a file
\* JSON.parse rejects.
MjsConfigs ==
  {[parseOk |-> TRUE,
    dimensions |-> [business_type |-> b, platform |-> p,
                    complaint_type |-> ct, tone |-> t]] :
      b \in DimEntries("business_type"), p \in DimEntries("platform"),
      ct \in DimEntries("complaint_type"), t \in DimEntries("tone")}
    \cup {[parseOk |-> FALSE,
           dimensions |-> [dim \in Dims |-> [defined |-> FALSE, values |-> <<>>]]]}

----------------------------------------------------------------------------
(* The output tree an earlier run left behind *)

\* A slug an earlier run, with another catalog, generated.
OldSlug == <<"x", "-", "y", "-", "z">>

OldFile == [url |-> OldSlug, h1 |-> <<"Polite", "Response to", "Review", "for", "Cafe", "on", "Yelp">>]

NoFiles == [s \in {} |-> OldFile]

NoSitemap == [exists |-> FALSE, urls |-> <<>>]

NoIndex == [exists |-> FALSE, refs |-> {}]

Priors == {"fresh", "stale"}

PriorOutDirExists(pr) == pr = "stale"

PriorPageDirs(pr) == IF pr = "stale" THEN {OldSlug} ELSE {}

PriorPageFiles(pr) == IF pr = "stale" THEN [s \in {OldSlug} |-> OldFile] ELSE NoFiles

PriorSmProg(pr) ==
  IF pr = "stale" THEN [exists |-> TRUE, urls |-> <<OldSlug>>] ELSE NoSitemap

PriorSmMain(pr) == pr = "stale"

PriorSmIndex(pr) ==
  IF pr = "stale"
  THEN [exists |-> TRUE, refs |-> {"sitemap-main.xml", "sitemap-programmatic.xml"}]
  ELSE NoIndex

DiskIsPrior ==
  /\ outDirExists = PriorOutDirExists(prior)
  /\ pageDirs = PriorPageDirs(prior)
  /\ pageFiles = PriorPageFiles(prior)
  /\ smProg = PriorSmProg(prior)
  /\ smMain = PriorSmMain(prior)
  /\ smIndex = PriorSmIndex(prior)

AppIdle == [version |-> "none"]

----------------------------------------------------------------------------
(* generate-seo, ES-module script *)

\* The five passes of generatePages, each the dimensions its nested loops
\* run over, outermost first; the slug is built in this order.
PassDims ==
  << <<"business_type", "platform", "tone">>,
     <<"business_type", "complaint_type", "tone">>,
     <<"business_type", "platform", "complaint_type">>,
     <<"platform", "complaint_type", "tone">>,
     <<"business_type", "platform", "complaint_type", "tone">> >>

NumPasses == Len(PassDims)

RECURSIVE LoopThrows(_, _)
\* Whether running the nested loops over ds reads `.values` of an absent
\* dimension (a TypeError): a loop head is evaluated only once every loop
\* around it has a first iteration.
LoopThrows(d, ds) ==
  IF ds = <<>> THEN FALSE
  ELSE IF ~d[Head(ds)].defined THEN TRUE
  ELSE IF Len(d[Head(ds)].values) = 0 THEN FALSE
  ELSE LoopThrows(d, Tail(ds))

RECURSIVE LoopSize(_, _)
\* Number of iterations of the innermost body.
LoopSize(d, ds) ==
  IF ds = <<>> THEN 1 ELSE Len(d[Head(ds)].values) * LoopSize(d, Tail(ds))

RECURSIVE LoopVals(_, _, _)
\* The values bound by the loops at the n-th (from 0) iteration of the
\* innermost body, outermost loop first.
LoopVals(d, ds, n) ==
  IF ds = <<>> THEN <<>>
  ELSE LET r == LoopSize(d, Tail(ds))
       IN <<d[Head(ds)].values[(n \div r) + 1]>> \o LoopVals(d, Tail(ds), n % r)

\* The slug a pass builds from the values its loops bind.
PassSlug(vs) == JoinHy([i \in 1..Len(vs) |-> vs[i].id])

Field(ds, vs, dim) ==
  IF \E i \in 1..Len(ds) : ds[i] = dim
  THEN vs[CHOOSE i \in 1..Len(ds) : ds[i] = dim]
  ELSE Undefined

\* { slug, ...data }
PageOf(ds, vs) ==
  [slug |-> PassSlug(vs),
   business |-> Field(ds, vs, "business_type"),
   platform |-> Field(ds, vs, "platform"),
   complaint |-> Field(ds, vs, "complaint_type"),
   tone |-> Field(ds, vs, "tone")]

\* A faulty add: a slug already recorded takes the later combination.
add_LastWins(pg, sn, page) ==
  IF page.slug \in sn
  THEN [pages |-> [i \in 1..Len(pg) |-> IF pg[i].slug = page.slug THEN page ELSE pg[i]],
        seen |-> sn]
  ELSE [pages |-> Append(pg, page), seen |-> sn \cup {page.slug}]

\* const add = (slug, data) => { if (!seen.has(slug)) { seen.add(slug); pages.push(...) } }
add(pg, sn, page) ==
  IF page.slug \in sn
  THEN [pages |-> pg, seen |-> sn]
  ELSE [pages |-> Append(pg, page), seen |-> sn \cup {page.slug}]

Has(v) == v # Undefined

\* A faulty generateHTML: the connective of the business segment is pushed
\* whether or not the page has a business.
generateHTML_ForAlways(page) ==
  [url |-> page.slug,
   h1 |-> (IF Has(page.tone) THEN <<page.tone.en>> ELSE <<>>)
          \o <<"Response to">>
          \o (IF Has(page.complaint) THEN <<page.complaint.en>> ELSE <<>>)
          \o <<"Review">>
          \o <<"for">> \o (IF Has(page.business) THEN <<page.business.en>> ELSE <<>>)
          \o (IF Has(page.platform) THEN <<"on", page.platform.en>> ELSE <<>>)]

\* generateHTML: the heading's parts (joined by a space in the source; the
\* part `for ${business.en}` is the two words "for" and the display string)
\* and the page URL the document names.
generateHTML(page) ==
  [url |-> page.slug,
   h1 |-> (IF Has(page.tone) THEN <<page.tone.en>> ELSE <<>>)
          \o <<"Response to">>
          \o (IF Has(page.complaint) THEN <<page.complaint.en>> ELSE <<>>)
          \o <<"Review">>
          \o (IF Has(page.business) THEN <<"for", page.business.en>> ELSE <<>>)
          \o (IF Has(page.platform) THEN <<"on", page.platform.en>> ELSE <<>>)]

\* for (const p of pages) xml += `<url><loc>.../p/${p.slug}/</loc>...</url>`
SitemapUrls(pg) == [i \in 1..Len(pg) |-> pg[i].slug]

\* The <sitemap> entries of sitemap.xml.
IndexRefs == {"sitemap-main.xml", "sitemap-programmatic.xml"}

Crash(e) == pc' = "crashed" /\ err' = e

\* const config = JSON.parse(readFileSync(...))
LoadConfig ==
  /\ pc = "load"
  /\ IF config.parseOk
     THEN pc' = "reset" /\ err' = err
     ELSE Crash("SyntaxError")
  /\ UNCHANGED <<script, config, prior, pass, k, pages, seen, c, app>>
  /\ UNCHANGED diskVars

\* if (existsSync(outputDir)) rmSync(outputDir, { recursive: true });
\* mkdirSync(outputDir, { recursive: true });
ResetOutputDir ==
  /\ pc = "reset"
  /\ outDirExists' = TRUE
  /\ pageDirs' = {}
  /\ pageFiles' = NoFiles
  /\ pc' = "generatePages"
  /\ pass' = 1 /\ k' = 0 /\ pages' = <<>> /\ seen' = {}
  /\ UNCHANGED <<script, config, prior, err, c, smProg, smMain, smIndex, app>>

\* rmSync or mkdirSync throws before changing the tree.
ResetOutputDirFails ==
  /\ pc = "reset"
  /\ Crash("IOError")
  /\ UNCHANGED <<script, config, prior, pass, k, pages, seen, c, app>>
  /\ UNCHANGED diskVars

\* A pass whose loops read `.values` of a dimension the file lacks.
PassThrows ==
  /\ pc = "generatePages"
  /\ pass <= NumPasses
  /\ k = 0
  /\ LoopThrows(config.dimensions, PassDims[pass])
  /\ Crash("TypeError")
  /\ UNCHANGED <<script, config, prior, pass, k, pages, seen, c, app>>
  /\ UNCHANGED diskVars

\* One iteration of the innermost loop body of the current pass: add(...).
AddCombination ==
  /\ pc = "generatePages"
  /\ pass <= NumPasses
  /\ ~LoopThrows(config.dimensions, PassDims[pass])
  /\ k < LoopSize(config.dimensions, PassDims[pass])
  /\ LET ds == PassDims[pass]
         r == add(pages, seen, PageOf(ds, LoopVals(config.dimensions, ds, k)))
     IN pages' = r.pages /\ seen' = r.seen
  /\ k' = k + 1
  /\ UNCHANGED <<script, config, prior, pc, err, pass, c, app>>
  /\ UNCHANGED diskVars

\* The loops of the current pass are exhausted: on to the next.
NextPass ==
  /\ pc = "generatePages"
  /\ pass <= NumPasses
  /\ ~LoopThrows(config.dimensions, PassDims[pass])
  /\ k = LoopSize(config.dimensions, PassDims[pass])
  /\ pass' = pass + 1
  /\ k' = 0
  /\ UNCHANGED <<script, config, prior, pc, err, pages, seen, c, app>>
  /\ UNCHANGED diskVars

\* return pages;  const pages = generatePages();  let c = 0;
ReturnPages ==
  /\ pc = "generatePages"
  /\ pass > NumPasses
  /\ pc' = "writePages"
  /\ c' = 0
  /\ UNCHANGED <<script, config, prior, err, pass, k, pages, seen, app>>
  /\ UNCHANGED diskVars

\* One iteration of the main loop: mkdirSync(d); writeFileSync(index.html).
WritePage ==
  /\ pc = "writePages"
  /\ c < Len(pages)
  /\ LET p == pages[c + 1]
     IN /\ pageDirs' = pageDirs \cup {p.slug}
        /\ pageFiles' = [s \in DOMAIN pageFiles \cup {p.slug} |->
                           IF s = p.slug THEN generateHTML(p) ELSE pageFiles[s]]
  /\ c' = c + 1
  /\ UNCHANGED <<script, config, prior, pc, err, pass, k, pages, seen, app>>
  /\ UNCHANGED <<outDirExists, smProg, smMain, smIndex>>

\* mkdirSync throws, or writeFileSync throws after the directory was made.
WritePageFails ==
  /\ pc = "writePages"
  /\ c < Len(pages)
  /\ \E dirMade \in BOOLEAN :
       pageDirs' = IF dirMade THEN pageDirs \cup {pages[c + 1].slug} ELSE pageDirs
  /\ Crash("IOError")
  /\ UNCHANGED <<script, config, prior, pass, k, pages, seen, c, app>>
  /\ UNCHANGED <<outDirExists, pageFiles, smProg, smMain, smIndex>>

\* generateSitemaps(pages): the programmatic sitemap, the main sitemap, the index.
generateSitemaps ==
  /\ pc = "writePages"
  /\ c = Len(pages)
  /\ smProg' = [exists |-> TRUE, urls |-> SitemapUrls(pages)]
  /\ smMain' = TRUE
  /\ smIndex' = [exists |-> TRUE, refs |-> IndexRefs]
  /\ pc' = "done"
  /\ UNCHANGED <<script, config, prior, err, pass, k, pages, seen, c, app>>
  /\ UNCHANGED <<outDirExists, pageDirs, pageFiles>>

\* One of generateSitemaps' three writeFileSync calls throws: the n writes
\* before it have happened.
generateSitemapsFails ==
  /\ pc = "writePages"
  /\ c = Len(pages)
  /\ \E n \in 0..2 :
       /\ smProg' = IF n >= 1 THEN [exists |-> TRUE, urls |-> SitemapUrls(pages)] ELSE smProg
       /\ smMain' = IF n >= 2 THEN TRUE ELSE smMain
  /\ Crash("IOError")
  /\ UNCHANGED <<script, config, prior, pass, k, pages, seen, c, app>>
  /\ UNCHANGED <<outDirExists, pageDirs, pageFiles, smIndex>>

Init ==
  /\ script = "mjs"
  /\ config \in MjsConfigs
  /\ prior \in Priors
  /\ pc = "load"
  /\ err = "none"
  /\ pass = 0 /\ k = 0 /\ pages = <<>> /\ seen = {} /\ c = 0
  /\ DiskIsPrior
  /\ app = AppIdle

Next ==
  \/ LoadConfig
  \/ ResetOutputDir
  \/ ResetOutputDirFails
  \/ PassThrows
  \/ AddCombination
  \/ NextPass
  \/ ReturnPages
  \/ WritePage
  \/ WritePageFails
  \/ generateSitemaps
  \/ generateSitemapsFails

Spec == Init /\ [][Next]_vars

----------------------------------------------------------------------------
(* generate-seo, TypeScript script: config.dimensions is a list of          *)
(* {name, values_en}, config.combinations a list of pairs of dimension      *)
(* names.                                                                   *)

toLowerCase(ch) == IF ch = "A" THEN "a" ELSE IF ch = "B" THEN "b" ELSE ch

toUpperCase(ch) == IF ch = "a" THEN "A" ELSE IF ch = "b" THEN "B" ELSE ch

RECURSIVE ReplaceNonAlnumRuns(_)
\* .replace(/[^a-z0-9]+/g, '-')
ReplaceNonAlnumRuns(t) ==
  IF t = <<>> THEN <<>>
  ELSE IF Head(t) \in LowerAlnum THEN <<Head(t)>> \o ReplaceNonAlnumRuns(Tail(t))
  ELSE IF Len(t) > 1 /\ t[2] \notin LowerAlnum THEN ReplaceNonAlnumRuns(Tail(t))
  ELSE <<Hy>> \o ReplaceNonAlnumRuns(Tail(t))

\* .replace(/(^-|-$)/g, '')
StripEdgeHyphens(t) ==
  LET a == IF t # <<>> /\ Head(t) = Hy THEN Tail(t) ELSE t
  IN IF a # <<>> /\ a[Len(a)] = Hy THEN SubSeq(a, 1, Len(a) - 1) ELSE a

slugify(text) ==
  StripEdgeHyphens(ReplaceNonAlnumRuns([i \in 1..Len(text) |-> toLowerCase(text[i])]))

\* text.split('-').map(word => word.charAt(0).toUpperCase() + word.slice(1)).join(' ')
titleCase(text) ==
  [i \in 1..Len(text) |->
     IF text[i] = Hy THEN " "
     ELSE IF i = 1 \/ text[i - 1] = Hy THEN toUpperCase(text[i])
     ELSE text[i]]

\* The display values the TypeScript catalogs are built from.
TsValuePool == << <<"a">>, <<"A">>, <<"a", " ", "b">>, <<"!">> >>

TsValueLists ==
  { [i \in 1..Len(SortedSeq(S)) |-> TsValuePool[SortedSeq(S)[i]]] :
      S \in {T \in SUBSET (1..Len(TsValuePool)) : Cardinality(T) <= MaxVals} }

\* The pairs config.combinations is built from; the catalogs below have no
\* dimension named "tone".
TsCombinationPool ==
  {<<"business", "platform">>, <<"platform", "business">>, <<"business", "tone">>}

RECURSIVE SeqsUpTo(_, _)
SeqsUpTo(S, n) ==
  IF n = 0 THEN {<<>>}
  ELSE SeqsUpTo(S, n - 1)
         \cup {Append(q, x) : q \in {r \in SeqsUpTo(S, n - 1) : Len(r) = n - 1}, x \in S}

TsConfigs ==
  {[parseOk |-> TRUE,
    dimensions |-> <<[name |-> "business", values_en |-> b],
                     [name |-> "platform", values_en |-> p]>>,
    combinations |-> cs] :
      b \in TsValueLists, p \in TsValueLists,
      cs \in SeqsUpTo(TsCombinationPool, MaxCombinations)}
    \cup {[parseOk |-> FALSE, dimensions |-> <<>>, combinations |-> <<>>]}

\* config.dimensions.find(d => d.name === name) found something.
TsFound(name) == \E i \in 1..Len(config.dimensions) : config.dimensions[i].name = name

TsFind(name) ==
  config.dimensions[CHOOSE i \in 1..Len(config.dimensions) :
                      /\ config.dimensions[i].name = name
                      /\ \A j \in 1..(i - 1) : config.dimensions[j].name # name]

\* Iterations of the two loops over dim1.values_en and dim2.values_en.
TsLoopSize(cb) == Len(TsFind(cb[1]).values_en) * Len(TsFind(cb[2]).values_en)

TsVal1(cb, n) == TsFind(cb[1]).values_en[(n \div Len(TsFind(cb[2]).values_en)) + 1]

TsVal2(cb, n) == TsFind(cb[2]).values_en[(n % Len(TsFind(cb[2]).values_en)) + 1]

\* const slug = `${slugify(val1)}-${slugify(val2)}`
TsSlug(val1, val2) == slugify(val1) \o <<Hy>> \o slugify(val2)

\* generatePage: the title and the canonical URL of the document.
generatePage(val1, val2) ==
  [url |-> TsSlug(val1, val2),
   h1 |-> titleCase(val1) \o <<" ">> \o titleCase(val2) \o <<" ", "Review Translator">>]

\* const config = JSON.parse(fs.readFileSync(...))
TsLoadConfig ==
  /\ pc = "load"
  /\ IF config.parseOk
     THEN pc' = "ensureDir" /\ err' = err
     ELSE Crash("SyntaxError")
  /\ UNCHANGED <<script, config, prior, pass, k, pages, seen, c, app>>
  /\ UNCHANGED diskVars

\* if (!fs.existsSync(outputDir)) fs.mkdirSync(outputDir, { recursive: true });
\* const pages = [];
TsEnsureOutputDir ==
  /\ pc = "ensureDir"
  /\ outDirExists' = TRUE
  /\ pc' = "combinations"
  /\ pass' = 1 /\ k' = 0 /\ pages' = <<>>
  /\ UNCHANGED <<script, config, prior, err, seen, c, app>>
  /\ UNCHANGED <<pageDirs, pageFiles, smProg, smMain, smIndex>>

\* if (!dim1 || !dim2) continue;
TsSkipCombination ==
  /\ pc = "combinations"
  /\ pass <= Len(config.combinations)
  /\ ~(TsFound(config.combinations[pass][1]) /\ TsFound(config.combinations[pass][2]))
  /\ pass' = pass + 1
  /\ k' = 0
  /\ UNCHANGED <<script, config, prior, pc, err, pages, seen, c, app>>
  /\ UNCHANGED diskVars

\* One iteration of the inner loop: the page directory and file are written
\* and the page is pushed.
TsWritePage ==
  /\ pc = "combinations"
  /\ pass <= Len(config.combinations)
  /\ TsFound(config.combinations[pass][1]) /\ TsFound(config.combinations[pass][2])
  /\ k < TsLoopSize(config.combinations[pass])
  /\ LET cb == config.combinations[pass]
         val1 == TsVal1(cb, k)
         val2 == TsVal2(cb, k)
         slug == TsSlug(val1, val2)
     IN /\ pageDirs' = pageDirs \cup {slug}
        /\ pageFiles' = [s \in DOMAIN pageFiles \cup {slug} |->
                           IF s = slug THEN generatePage(val1, val2) ELSE pageFiles[s]]
        /\ pages' = Append(pages, [slug |-> slug, url |-> slug])
  /\ k' = k + 1
  /\ UNCHANGED <<script, config, prior, pc, err, pass, seen, c, app>>
  /\ UNCHANGED <<outDirExists, smProg, smMain, smIndex>>

\* mkdirSync or writeFileSync of a page throws.
TsWritePageFails ==
  /\ pc = "combinations"
  /\ pass <= Len(config.combinations)
  /\ TsFound(config.combinations[pass][1]) /\ TsFound(config.combinations[pass][2])
  /\ k < TsLoopSize(config.combinations[pass])
  /\ Crash("IOError")
  /\ UNCHANGED <<script, config, prior, pass, k, pages, seen, c, app>>
  /\ UNCHANGED diskVars

\* The loops over the current combination's values are exhausted.
TsNextCombination ==
  /\ pc = "combinations"
  /\ pass <= Len(config.combinations)
  /\ TsFound(config.combinations[pass][1]) /\ TsFound(config.combinations[pass][2])
  /\ k = TsLoopSize(config.combinations[pass])
  /\ pass' = pass + 1
  /\ k' = 0
  /\ UNCHANGED <<script, config, prior, pc, err, pages, seen, c, app>>
  /\ UNCHANGED diskVars

\* fs.writeFileSync(sitemapPath, sitemapContent): one <url> per entry of pages.
TsWriteSitemap ==
  /\ pc = "combinations"
  /\ pass > Len(config.combinations)
  /\ smProg' = [exists |-> TRUE, urls |-> [i \in 1..Len(pages) |-> pages[i].url]]
  /\ pc' = "done"
  /\ UNCHANGED <<script, config, prior, err, pass, k, pages, seen, c, app>>
  /\ UNCHANGED <<outDirExists, pageDirs, pageFiles, smMain, smIndex>>

TsInit ==
  /\ script = "ts"
  /\ config \in TsConfigs
  /\ prior \in Priors
  /\ pc = "load"
  /\ err = "none"
  /\ pass = 0 /\ k = 0 /\ pages = <<>> /\ seen = {} /\ c = 0
  /\ DiskIsPrior
  /\ app = AppIdle

TsNext ==
  \/ TsLoadConfig
  \/ TsEnsureOutputDir
  \/ TsSkipCombination
  \/ TsWritePage
  \/ TsWritePageFails
  \/ TsNextCombination
  \/ TsWriteSitemap

SpecTs == TsInit /\ [][TsNext]_vars

----------------------------------------------------------------------------
(* App: the component with fetch ("fetch") and the component with the       *)
(* token store and the free trial ("token").                                *)

\* The i18n of the test setup: t: (key) => key.
t(key) == key

IsSpace(ch) == ch = " "

RECURSIVE trimStart(_)
trimStart(text) ==
  IF text # <<>> /\ IsSpace(Head(text)) THEN trimStart(Tail(text)) ELSE text

RECURSIVE trimEnd(_)
trimEnd(text) ==
  IF text # <<>> /\ IsSpace(text[Len(text)])
  THEN trimEnd(SubSeq(text, 1, Len(text) - 1))
  ELSE text

\* review.trim()
trim(text) == trimEnd(trimStart(text))

\* message.includes(sub)
includes(message, sub) ==
  \E i \in 0..(Len(message) - Len(sub)) :
    \A j \in 1..Len(sub) : message[i + j] = sub[j]

\* What the textarea may hold.
Reviews == {<<>>, <<" ">>, <<"B", "a", "d">>, <<" ", "B", "a", "d", " ">>}

\* What the translate endpoint returns.
TranslateResults ==
  {[original |-> <<"B", "a", "d">>, user_really_means |-> "User means this",
    boss_hears |-> "Boss hears this"],
   [original |-> <<"B", "a", "d">>, user_really_means |-> "User text",
    boss_hears |-> "Boss text"]}

\* The messages of the errors translateReview throws.
ErrorMessages ==
  {<<"4", "0", "2">>, <<"t", "r", "i", "a", "l">>, <<"T", "o", "k", "e", "n">>,
   <<"t", "o", "k", "e", "n">>, <<"N", "e", "t">>}

Null == [null |-> TRUE]

NoResponse == [kind |-> "none"]

\* How a request of the fetch version settles: the response is OK and its
\* JSON is read, the response is not OK, fetch rejects, res.json() rejects.
FetchResponses ==
  {[kind |-> "ok", data |-> d] : d \in TranslateResults}
    \cup {[kind |-> "notOk"], [kind |-> "rejected"], [kind |-> "badJson"]}

\* How translateReview settles: with the data, with an Error carrying a
\* message, or with a thrown value that is no Error.
TokenResponses ==
  {[kind |-> "ok", data |-> d] : d \in TranslateResults}
    \cup {[kind |-> "error", message |-> m] : m \in ErrorMessages}
    \cup {[kind |-> "thrown"]}

\* useState initial values.
AppInitial(version, credits) ==
  [version |-> version,
   review |-> <<>>,
   loading |-> FALSE,
   result |-> Null,
   error |-> "",
   deviceId |-> IF version = "token" THEN "null" ELSE "none",
   hasFreeTrial |-> IF version = "token" THEN "null" ELSE "none",
   credits |-> credits,
   request |-> "idle",
   reqCredits |-> 0,
   response |-> NoResponse,
   history |-> <<>>]

\* getActiveToken(): the stored token while it has generations left.
HasActiveToken(a) == a.credits > 0

\* getTotalGenerations()
totalCredits(a) == a.credits

\* const canTranslate = hasFreeTrial || totalCredits > 0
canTranslate(a) == a.hasFreeTrial = "true" \/ totalCredits(a) > 0

\* A faulty disabled attribute: the review is tested without trim().
ButtonDisabled_IgnoresWhitespace(a) ==
  \/ a.loading
  \/ a.review = <<>>
  \/ a.version = "token" /\ ~canTranslate(a)

\* disabled={loading || !review.trim()} and, in the token version, || !canTranslate
ButtonDisabled(a) ==
  \/ a.loading
  \/ trim(a.review) = <<>>
  \/ a.version = "token" /\ ~canTranslate(a)

\* The text of the translate button:
\* {loading ? t('translating') : t('translateBtn')}, and in the token version
\* {loading ? t('translating') : !canTranslate ? t('buyToTranslate') : t('translateBtn')}
ButtonLabel(a) ==
  IF a.loading THEN t("translating")
  ELSE IF a.version = "token" /\ ~canTranslate(a) THEN t("buyToTranslate")
  ELSE t("translateBtn")

\* if (!review.trim()) return; and, in the token version, || !deviceId
ReturnsEarly(a) ==
  \/ trim(a.review) = <<>>
  \/ a.version = "token" /\ a.deviceId = "null"

\* A faulty start of handleTranslate: the earlier result is left in place.
BeginTranslate_KeepsResult(a) ==
  [a EXCEPT !.loading = TRUE, !.error = "",
            !.request = "pending",
            !.reqCredits = IF HasActiveToken(a) THEN a.credits ELSE 0]

\* handleTranslate up to its await: setLoading(true); setError('');
\* setResult(null); the request is sent with the active token as it is now.
BeginTranslate(a) ==
  [a EXCEPT !.loading = TRUE, !.error = "", !.result = Null,
            !.request = "pending",
            !.reqCredits = IF HasActiveToken(a) THEN a.credits ELSE 0]

\* updateTokenUsage(token, remaining): the stored token's remaining
\* generations are set to the number given.
updateTokenUsage(a, remaining) == [a EXCEPT !.credits = remaining]

\* A faulty success path: the token is stored with the count it had.
AfterSuccess_KeepsCredits(a, data) ==
  [a EXCEPT !.result = data,
            !.hasFreeTrial = IF a.version = "token" /\ a.reqCredits = 0
                             THEN "false" ELSE a.hasFreeTrial,
            !.loading = FALSE]

\* handleTranslate after a request that succeeded: setResult(data), then,
\* in the token version, the credit is taken (from the token that was active
\* at the click, or else from the free trial); finally setLoading(false).
AfterSuccess(a, data) ==
  LET shown == [a EXCEPT !.result = data,
                         !.hasFreeTrial = IF a.version = "token" /\ a.reqCredits = 0
                                          THEN "false" ELSE a.hasFreeTrial,
                         !.loading = FALSE]
  IN  IF a.version = "token" /\ a.reqCredits > 0
      THEN updateTokenUsage(shown, a.reqCredits - 1)
      ELSE shown

\* message.includes('402') || message.includes('trial') || message.includes('Token')
NeedsCredits(message) ==
  \/ includes(message, <<"4", "0", "2">>)
  \/ includes(message, <<"t", "r", "i", "a", "l">>)
  \/ includes(message, <<"T", "o", "k", "e", "n">>)

\* A faulty failure path: the finally block is missing.
AfterFailure_StaysLoading(a, r) ==
  IF a.version = "token" /\ r.kind = "error" /\ NeedsCredits(r.message)
  THEN [a EXCEPT !.error = t("needCredits"), !.hasFreeTrial = "false"]
  ELSE [a EXCEPT !.error = t("error")]

\* handleTranslate's catch and finally.
AfterFailure(a, r) ==
  IF a.version = "token" /\ r.kind = "error" /\ NeedsCredits(r.message)
  THEN [a EXCEPT !.error = t("needCredits"), !.hasFreeTrial = "false", !.loading = FALSE]
  ELSE [a EXCEPT !.error = t("error"), !.loading = FALSE]

genIdle ==
  /\ UNCHANGED <<script, config, prior, pc, err, pass, k, pages, seen, c>>
  /\ UNCHANGED diskVars

\* onChange of the textarea: setReview(e.target.value)
SetReview ==
  /\ \E text \in Reviews : app' = [app EXCEPT !.review = text]
  /\ app'.review # app.review
  /\ genIdle

\* The init effect of the token version: getDeviceId() resolves.
InitDeviceId ==
  /\ app.version = "token"
  /\ app.deviceId = "null"
  /\ app' = [app EXCEPT !.deviceId = "device"]
  /\ genIdle

\* The init effect of the token version: getTrialStatus resolves with the
\* flag, or rejects and the trial is assumed available.
InitTrialStatus ==
  /\ app.version = "token"
  /\ app.deviceId = "device"
  /\ app.hasFreeTrial = "null"
  /\ \E flag \in {"true", "false"} : app' = [app EXCEPT !.hasFreeTrial = flag]
  /\ genIdle

\* A click on the translate button runs handleTranslate up to its await.
ClickTranslate ==
  /\ ~ButtonDisabled(app)
  /\ Len(app.history) + (IF app.request = "pending" THEN 1 ELSE 0) < MaxRequests
  /\ app' = IF ReturnsEarly(app) THEN app ELSE BeginTranslate(app)
  /\ genIdle

\* The request settles and the rest of handleTranslate runs.
RequestSettles ==
  /\ app.request = "pending"
  /\ \E r \in (IF app.version = "fetch" THEN FetchResponses ELSE TokenResponses) :
       app' = [(IF r.kind = "ok" THEN AfterSuccess(app, r.data) ELSE AfterFailure(app, r))
                 EXCEPT !.request = "idle",
                        !.response = r,
                        !.history = Append(app.history, IF r.kind = "ok" THEN "ok" ELSE "failed")]
  /\ genIdle

AppInit ==
  /\ script = "none"
  /\ config = [parseOk |-> FALSE]
  /\ prior = "fresh"
  /\ pc = "idle"
  /\ err = "none"
  /\ pass = 0 /\ k = 0 /\ pages = <<>> /\ seen = {} /\ c = 0
  /\ DiskIsPrior
  /\ \E version \in {"fetch", "token"} : \E credits \in 0..MaxCredits :
       /\ version = "fetch" => credits = 0
       /\ app = AppInitial(version, credits)

AppNext ==
  \/ SetReview
  \/ InitDeviceId
  \/ InitTrialStatus
  \/ ClickTranslate
  \/ RequestSettles

SpecApp == AppInit /\ [][AppNext]_vars

----------------------------------------------------------------------------
(* What the passes produce, as the claims speak of it *)

\* The visits made so far: <<p, n>> is the n-th (from 0) combination of pass p.
Visited ==
  {v \in UNION {{<<p, n>> : n \in 0..(LoopSize(config.dimensions, PassDims[p]) - 1)} :
                  p \in 1..NumPasses} :
     v[1] < pass \/ (v[1] = pass /\ v[2] < k)}

Produced(v) == PageOf(PassDims[v[1]], LoopVals(config.dimensions, PassDims[v[1]], v[2]))

Before(v, w) == v[1] < w[1] \/ (v[1] = w[1] /\ v[2] < w[2])

\* Every visit made so far with the page it produced.
ProducedSoFar == [v \in Visited |-> Produced(v)]

\* The slugs the TypeScript script's loops have produced so far.
TsProducedSlugs ==
  {TsSlug(TsVal1(config.combinations[v[1]], v[2]), TsVal2(config.combinations[v[1]], v[2])) :
     v \in {w \in UNION {{<<ci, n>> : n \in 0..(TsLoopSize(config.combinations[ci]) - 1)} :
                           ci \in {x \in 1..Len(config.combinations) :
                                     /\ TsFound(config.combinations[x][1])
                                     /\ TsFound(config.combinations[x][2])}} :
              w[1] < pass \/ (w[1] = pass /\ w[2] < k)}}

\* The distinct slugs the enumeration has produced so far.
ProducedSlugs ==
  IF script = "mjs" THEN {Produced(v).slug : v \in Visited} ELSE TsProducedSlugs

PagesWithSlug(s) == {i \in 1..Len(pages) : pages[i].slug = s}

PageSlugs == {pages[i].slug : i \in 1..Len(pages)}

\* The pass whose dimensions are exactly those a page carries.
PassOfPage(page) ==
  CHOOSE p \in 1..NumPasses :
    \A dim \in Dims :
      (\E i \in 1..Len(PassDims[p]) : PassDims[p][i] = dim)
        <=> Has(Field(<<"business_type", "platform", "complaint_type", "tone">>,
                      <<page.business, page.platform, page.complaint, page.tone>>, dim))

\* The combinations of a page's pass that yield the page's slug.
SplitsOf(page) ==
  LET ds == PassDims[PassOfPage(page)]
  IN {n \in 0..(LoopSize(config.dimensions, ds) - 1) :
        PassSlug(LoopVals(config.dimensions, ds, n)) = page.slug}

----------------------------------------------------------------------------
(* C1 *)

\* The page list as generatePages returns it: for every slug that visits of
\* different passes produced, exactly one page has the slug, and it is the
\* combination of the earliest visit, which belongs to the earliest pass.
FirstPatternWon ==
  \A prod \in {ProducedSoFar} :
    \A w \in Visited :
      LET same == {u \in Visited : prod[u].slug = prod[w].slug}
      IN (\E u \in same : u[1] # w[1])
           => /\ Cardinality(PagesWithSlug(prod[w].slug)) = 1
              /\ \A i \in PagesWithSlug(prod[w].slug) :
                   \E first \in same :
                     /\ \A x \in same : x = first \/ Before(first, x)
                     /\ pages[i] = prod[first]
                     /\ \A x \in same : PassOfPage(pages[i]) <= x[1]

\* While generatePages runs, a step leaves every recorded page as it is.
RecordedPagesKept ==
  pc = "generatePages" =>
    /\ Len(pages') >= Len(pages)
    /\ \A i \in 1..Len(pages) : pages'[i] = pages[i]

\* C1: whenever two combinations produced by different passes have equal
\* slugs, the page list generatePages returns holds exactly one page for
\* that slug, with the combination of the pass earliest in pass order, and
\* no step of generatePages replaces or alters a page already recorded.
C1_FirstPatternWins ==
  /\ [](pc = "writePages" /\ c = 0 => FirstPatternWon)
  /\ [][RecordedPagesKept]_vars

\* A finished run in which a later pass reached a slug of an earlier pass
\* with other dimension values.
C1_Witness ==
  /\ pc = "done"
  /\ LET prod == ProducedSoFar
     IN \E v \in Visited : \E w \in Visited :
          /\ v[1] < w[1]
          /\ prod[v].slug = prod[w].slug
          /\ prod[v] # prod[w]

----------------------------------------------------------------------------
(* C2 *)

\* C2: at every step no two entries of the page list share a slug, and when
\* the run is done the number of pages and of sitemap <url> entries is the
\* number of distinct slugs the passes produced.
C2_SlugsUniqueAndComplete ==
  /\ \A i \in 1..Len(pages) : \A j \in 1..Len(pages) :
       pages[i].slug = pages[j].slug => i = j
  /\ pc = "done" =>
       /\ Len(pages) = Cardinality(ProducedSlugs)
       /\ smProg.exists
       /\ Len(smProg.urls) = Len(pages)

----------------------------------------------------------------------------
(* C3 *)

\* C3: every slug of the page list matches ^[a-z0-9]+(-[a-z0-9]+)*$ and is
\* the slug of exactly one combination of the pass that produced its page
\* (it splits back into one list of value identifiers only).
C3_SlugWellFormed ==
  \A i \in 1..Len(pages) :
    /\ WellFormedSlug(pages[i].slug)
    /\ Cardinality(SplitsOf(pages[i])) = 1

----------------------------------------------------------------------------
(* C4 *)

\* C4: when a run completes, the page directories under the output root are
\* exactly the slugs the run emitted, whatever the root held before.
C4_FullRegeneration ==
  pc = "done" => pageDirs = PageSlugs

----------------------------------------------------------------------------
(* C5 *)

Occurrences(seq, x) == Cardinality({i \in 1..Len(seq) : seq[i] = x})

\* The sitemap shards present under ../public.
ShardsOnDisk ==
  (IF smProg.exists THEN {"sitemap-programmatic.xml"} ELSE {})
    \cup (IF smMain THEN {"sitemap-main.xml"} ELSE {})

\* C5: after a completed run every generated page's URL is listed exactly
\* once in the programmatic sitemap, every URL listed there has its page,
\* and the sitemap index, where there is one, references exactly the shards
\* on disk.
C5_SitemapCoverage ==
  pc = "done" =>
    /\ smProg.exists
    /\ \A s \in PageSlugs : Occurrences(smProg.urls, s) = 1
    /\ \A i \in 1..Len(smProg.urls) :
         smProg.urls[i] \in PageSlugs /\ smProg.urls[i] \in DOMAIN pageFiles
    /\ smIndex.exists => smIndex.refs = ShardsOnDisk

----------------------------------------------------------------------------
(* C6 *)

\* The file is no usable catalog: it does not parse, or a dimension the
\* passes name is absent from it.
ConfigurationError ==
  \/ ~config.parseOk
  \/ \E dim \in Dims : ~config.dimensions[dim].defined

\* C6: with a configuration error the run does not complete normally, and
\* when it aborts on the error nothing under ../public has changed.
C6_ConfigErrorBeforeOutput ==
  ConfigurationError =>
    /\ pc # "done"
    /\ (pc = "crashed" /\ err \in {"SyntaxError", "TypeError"}) => DiskIsPrior

----------------------------------------------------------------------------
(* C7 *)

\* The process ended in the loop that writes the pages, on a failed
\* mkdirSync or writeFileSync.
AbortedDuringPageGeneration ==
  /\ pc = "crashed"
  /\ err = "IOError"
  /\ pass > NumPasses
  /\ c < Len(pages)

\* C7: the sitemap files are written only once every planned page has been
\* written, and when a run has ended, done or aborted during page
\* generation, every URL the programmatic sitemap on disk lists has its page
\* file on disk.
C7_SitemapsFollowPages ==
  /\ (smProg # PriorSmProg(prior) \/ smMain # PriorSmMain(prior)
        \/ smIndex # PriorSmIndex(prior))
       => /\ c = Len(pages)
          /\ PageSlugs \subseteq DOMAIN pageFiles
  /\ (pc = "done" \/ AbortedDuringPageGeneration)
       => (smProg.exists =>
             \A i \in 1..Len(smProg.urls) : smProg.urls[i] \in DOMAIN pageFiles)

----------------------------------------------------------------------------
(* C8 *)

\* C8: no sitemap shard a run wrote lists more than the maximum number of
\* entries.
C8_ShardCapacity ==
  (pc = "done" /\ smProg.exists) => Len(smProg.urls) <= MaxShardEntries

----------------------------------------------------------------------------
(* C9 *)

In(h, x) == \E i \in 1..Len(h) : h[i] = x

Pos(h, x) == CHOOSE i \in 1..Len(h) : h[i] = x

DisplayStrings(dim) == {EnOf[dim][i] : i \in 1..Len(EnOf[dim])}

\* The heading's possible items in the order the rule fixes, each with
\* whether the page's combination calls for it.
HeadingItems(page) ==
  << [text |-> page.tone.en,      due |-> Has(page.tone)],
     [text |-> "Response to",     due |-> TRUE],
     [text |-> page.complaint.en, due |-> Has(page.complaint)],
     [text |-> "Review",          due |-> TRUE],
     [text |-> "for",             due |-> Has(page.business)],
     [text |-> page.business.en,  due |-> Has(page.business)],
     [text |-> "on",              due |-> Has(page.platform)],
     [text |-> page.platform.en,  due |-> Has(page.platform)] >>

\* The segments of the dimensions: present ones once, in the fixed order
\* tone, complaint type, business type, platform; absent ones not at all;
\* "for" and "on" exactly with, and right before, business and platform.
SegmentsInOrder(page, h) ==
  LET items == HeadingItems(page)
      conn == {2, 4}
  IN /\ \A a \in (1..Len(items)) \ conn :
          Occurrences(h, items[a].text) = IF items[a].due THEN 1 ELSE 0
     /\ \A a \in (1..Len(items)) \ conn : \A b \in (1..Len(items)) \ conn :
          (a < b /\ items[a].due /\ items[b].due)
            => Pos(h, items[a].text) < Pos(h, items[b].text)
     /\ Has(page.business) => Pos(h, "for") + 1 = Pos(h, page.business.en)
     /\ Has(page.platform) => Pos(h, "on") + 1 = Pos(h, page.platform.en)
     /\ ~Has(page.tone) => \A x \in DisplayStrings("tone") : ~In(h, x)
     /\ ~Has(page.complaint) => \A x \in DisplayStrings("complaint_type") : ~In(h, x)
     /\ ~Has(page.business) => \A x \in DisplayStrings("business_type") : ~In(h, x)
     /\ ~Has(page.platform) => \A x \in DisplayStrings("platform") : ~In(h, x)

\* "Response to" and "Review" stand in every heading, once each, the first
\* after the tone and before the complaint type, the second after the
\* complaint type and before "for", the business type and the platform; and
\* the heading holds nothing else.
FixedWordsAlways(page, h) ==
  LET items == HeadingItems(page)
  IN /\ Occurrences(h, "Response to") = 1
     /\ Occurrences(h, "Review") = 1
     /\ \A a \in 1..Len(items) : \A b \in 1..Len(items) :
          (a < b /\ items[a].due /\ items[b].due)
            => Pos(h, items[a].text) < Pos(h, items[b].text)
     /\ Len(h) = Cardinality({a \in 1..Len(items) : items[a].due})

\* The pages the main loop has written, each with the heading in its file.
WrittenPages == 1..c

HeadingOf(i) == pageFiles[pages[i].slug].h1

\* The written pages a state is examined for: all of them once the run is
\* done, the one just written before.
PagesToExamine == IF pc = "done" THEN WrittenPages ELSE WrittenPages \cap {c}

\* C9, as amended: in every written page the heading lists the segments of
\* the dimensions the combination has in the order tone, complaint type,
\* business type, platform, an absent dimension contributes none, "for" and
\* "on" appear exactly with the business type and the platform, and
\* "Response to" and "Review" appear in every heading, whichever dimensions
\* are present.
C9_TitleRuleAmended ==
  pc \in {"writePages", "done", "crashed"} =>
    \A i \in PagesToExamine :
      /\ SegmentsInOrder(pages[i], HeadingOf(i))
      /\ FixedWordsAlways(pages[i], HeadingOf(i))

\* A finished run that wrote pages lacking each of the four dimensions.
C9_Witness ==
  /\ pc = "done"
  /\ \E i \in WrittenPages : ~Has(pages[i].tone)
  /\ \E i \in WrittenPages : ~Has(pages[i].complaint)
  /\ \E i \in WrittenPages : ~Has(pages[i].business)
  /\ \E i \in WrittenPages : ~Has(pages[i].platform)

\* C9, as stated: the segments are in the fixed order, absent dimensions
\* contribute none, and each connective appears only when the segment it
\* attaches to (a neighbour in the fixed order: tone or complaint type for
\* the first, complaint type or business type for the second) is present.
C9_TitleRule ==
  pc \in {"writePages", "done", "crashed"} =>
    /\ \A i \in WrittenPages : SegmentsInOrder(pages[i], HeadingOf(i))
    /\ \E a1 \in {"tone", "complaint"} : \E a2 \in {"complaint", "business"} :
         \A i \in WrittenPages :
           /\ In(HeadingOf(i), "Response to") => Has(pages[i][a1])
           /\ In(HeadingOf(i), "Review") => Has(pages[i][a2])

----------------------------------------------------------------------------
(* C10 *)

ResultDisplayed == app.result # Null

ErrorDisplayed == app.error # ""

\* C10: once a translate request has settled (and until the next one
\* starts), if it succeeded the returned result is displayed and no error
\* is, and if it failed an error message is displayed and no result is,
\* also when an earlier request had succeeded.
C10_TranslationOutcome ==
  (app.version \in {"fetch", "token"} /\ app.request = "idle"
     /\ app.response # NoResponse)
    => IF app.response.kind = "ok"
       THEN app.result = app.response.data /\ ResultDisplayed /\ ~ErrorDisplayed
       ELSE ErrorDisplayed /\ ~ResultDisplayed
            /\ app.error \in {t("error"), t("needCredits")}

\* A request has failed after an earlier one had succeeded.
C10_Witness ==
  /\ app.version \in {"fetch", "token"}
  /\ app.request = "idle"
  /\ app.history = <<"ok", "failed">>
  /\ ErrorDisplayed

----------------------------------------------------------------------------
(* C11 *)

IsApp == app.version \in {"fetch", "token"}

ReviewIsBlank == trim(app.review) = <<>>

InFlight == app.request = "pending"

----------------------------------------------------------------------------
(* C12 *)

\* C12: while a translate request is in flight the UI is loading and the
\* button reads 'translating'; whenever no request is in flight, before the
\* first click and after a request has settled by success or by failure,
\* loading is false and the button does not read 'translating'. Loading is
\* therefore true exactly as long as the request has not settled.
C12_LoadingState ==
  IsApp =>
    /\ InFlight => app.loading /\ ButtonLabel(app) = t("translating")
    /\ ~InFlight => ~app.loading /\ ButtonLabel(app) # t("translating")

\* A second request is in flight after the first one failed.
C12_Witness ==
  /\ IsApp
  /\ InFlight
  /\ app.history = <<"failed">>
  /\ app.loading

----------------------------------------------------------------------------
(* C13 *)

\* The request of the token version settles in this step.
TokenRequestSettles ==
  app.version = "token" /\ app.request = "pending" /\ app'.request = "idle"

\* The failure carries a message that mentions 402, 'trial' or 'Token'.
MentionsCredits(r) ==
  /\ r.kind = "error"
  /\ \E sub \in {<<"4", "0", "2">>, <<"t", "r", "i", "a", "l">>,
                 <<"T", "o", "k", "e", "n">>} : includes(r.message, sub)

\* C13: in the token version, a request that settles successfully takes
\* exactly one credit: with a token active at the click its remaining count
\* goes down by exactly 1 and the free trial flag is left alone, with none
\* the free trial flag becomes false and the count is left alone. A request
\* that fails leaves the remaining count unchanged, and sets the free trial
\* flag to false exactly when its message mentions 402, 'trial' or 'Token'.
C13_CreditConsumption ==
  [][TokenRequestSettles =>
       IF app'.response.kind = "ok"
       THEN IF app.reqCredits > 0
            THEN /\ app'.credits = app.credits - 1
                 /\ app'.hasFreeTrial = app.hasFreeTrial
            ELSE /\ app'.hasFreeTrial = "false"
                 /\ app'.credits = app.credits
       ELSE /\ app'.credits = app.credits
            /\ app'.hasFreeTrial =
                 IF MentionsCredits(app'.response) THEN "false" ELSE app.hasFreeTrial]_vars

\* Two translations succeeded: the first took the token's last generation,
\* the second the free trial.
C13_Witness ==
  /\ app.version = "token"
  /\ app.history = <<"ok", "ok">>
  /\ app.credits = 0
  /\ app.hasFreeTrial = "false"

====
